---------------------------- MODULE Spec2Model ----------------------------
(***************************************************************************)
(* State-machine model of roles/netbsd-mdns/files/mdns-proxy.py: the       *)
(* DNS -> mDNS bridge daemon (startup, PID file, signal handling, the      *)
(* serving loop of run_proxy and the resolution cache).                    *)
(*                                                                         *)
(* One process is modelled: the one that runs main().  With --daemon it is *)
(* the process that survives daemonize() (the two parents exit 0 and are   *)
(* not modelled).  The environment is the requesters that put datagrams    *)
(* into the listening socket's buffer, the mDNS responders that put        *)
(* datagrams into the multicast socket's buffer, the operating system      *)
(* (which may refuse a call) and whoever sends signals.                    *)
(*                                                                         *)
(* Specifications: Spec and FairSpec (the daemon), LogSpec (the daemon     *)
(* when a write to stdout may fail), PairSpec (two instances of the daemon *)
(* that share a PID file path), UserSpec (the user-management modules      *)
(* library/freshrss_user.py and library/ttrss_user.py).                    *)
(***************************************************************************)
EXTENDS Integers, Sequences, FiniteSets, TLC

(***************************************************************************)
(* Bounds of the model.                                                    *)
(***************************************************************************)
\* datagrams the requesters send during one run
MaxQueries == 2
\* datagrams the listening socket's buffer holds
MaxInbox == 2
\* datagrams the multicast socket's buffer holds
MaxMbox == 1

(***************************************************************************)
(* Text.  A Python str is a sequence of one-character strings.             *)
(***************************************************************************)
DigitChar(d) ==
    CASE d = 0 -> "0" [] d = 1 -> "1" [] d = 2 -> "2" [] d = 3 -> "3"
      [] d = 4 -> "4" [] d = 5 -> "5" [] d = 6 -> "6" [] d = 7 -> "7"
      [] d = 8 -> "8" [] d = 9 -> "9"

Digits == {"0", "1", "2", "3", "4", "5", "6", "7", "8", "9"}

DigitValue(c) == CHOOSE d \in 0..9 : DigitChar(d) = c

Whitespace == {" ", "\n"}

RECURSIVE IntToText(_)
\* str(n) for n >= 0
IntToText(n) ==
    IF n < 10 THEN <<DigitChar(n)>>
    ELSE IntToText(n \div 10) \o <<DigitChar(n % 10)>>

RECURSIVE Strip(_)
\* str.strip(): leading and trailing whitespace removed
Strip(s) ==
    IF s = <<>> THEN s
    ELSE IF Head(s) \in Whitespace THEN Strip(Tail(s))
    ELSE IF s[Len(s)] \in Whitespace THEN Strip(SubSeq(s, 1, Len(s) - 1))
    ELSE s

RECURSIVE DecimalValue(_)
DecimalValue(s) ==
    IF s = <<>> THEN 0
    ELSE 10 * DecimalValue(SubSeq(s, 1, Len(s) - 1)) + DigitValue(s[Len(s)])

ValueError == -1

\* int(text): the number, or ValueError for text that is not a decimal number
ParseInt(s) ==
    IF s # <<>> /\ \A i \in 1..Len(s) : s[i] \in Digits
    THEN DecimalValue(s)
    ELSE ValueError

\* str.endswith
EndsWith(s, suffix) ==
    /\ Len(s) >= Len(suffix)
    /\ SubSeq(s, Len(s) - Len(suffix) + 1, Len(s)) = suffix

(***************************************************************************)
(* DNS names, messages and the wire format (the dnspython codec).          *)
(***************************************************************************)
LabelA == <<"a">>
LabelB == <<"b">>
LabelLocal == <<"l", "o", "c", "a", "l">>
LabelLOCAL == <<"L", "O", "C", "A", "L">>
LabelCom == <<"c", "o", "m">>

\* A name is the sequence of its labels, the root label left out.
NameALocal == <<LabelA, LabelLocal>>
NameBLocal == <<LabelB, LabelLocal>>
NameAUpper == <<LabelA, LabelLOCAL>>
NameLocal == <<LabelLocal>>
NameACom == <<LabelA, LabelCom>>

RECURSIVE JoinLabels(_)
JoinLabels(labels) ==
    IF labels = <<>> THEN <<>>
    ELSE Head(labels) \o <<".">> \o JoinLabels(Tail(labels))

\* str(name) of an absolute name: every label followed by a dot; "." for the root
NameToText(name) == IF name = <<>> THEN <<".">> ELSE JoinLabels(name)

LOCAL_SUFFIX == <<".", "l", "o", "c", "a", "l", ".">>

\* record types: A and AAAA
TypeA == 1
TypeAAAA == 28

\* the transaction id the mDNS responder puts in its replies
ResponderId == 9

Question(name, rdtype) == [name |-> name, rdtype |-> rdtype]

\* answer records (rrsets)
RecordOld == [name |-> NameALocal, rdtype |-> TypeA, rdata |-> "10.0.0.42"]
RecordNew == [name |-> NameALocal, rdtype |-> TypeA, rdata |-> "10.0.0.43"]

\* A datagram: well formed (a header and the sections it announces) or not.
Datagram(id, flags, qd, an) ==
    [wellformed |-> TRUE, id |-> id, flags |-> flags, qd |-> qd, an |-> an]

Malformed == [wellformed |-> FALSE, id |-> 0, flags |-> {}, qd |-> <<>>, an |-> <<>>]

ParseError == [error |-> "DNSException"]

\* dns.message.from_wire
from_wire(data) ==
    IF data.wellformed
    THEN [id |-> data.id, flags |-> data.flags,
          question |-> data.qd, answer |-> data.an]
    ELSE ParseError

\* Message.to_wire
to_wire(msg) == Datagram(msg.id, msg.flags, msg.question, msg.answer)

FormError == [error |-> "FormError"]

\* dns.message.make_response: refuses a message that is itself a response
make_response(query) ==
    IF "QR" \in query.flags THEN FormError
    ELSE [id |-> query.id, flags |-> {"QR"} \cup (query.flags \cap {"RD"}),
          question |-> query.question, answer |-> <<>>]

\* a query with one question
Query(id, name, rdtype) == Datagram(id, {"RD"}, <<Question(name, rdtype)>>, <<>>)

ClientA == "10.0.0.5:40000"
ClientB == "10.0.0.6:40001"

From(addr, data) == [data |-> data, addr |-> addr]

\* what the requesters may send: the same question from two requesters with
\* their own ids; another type; a response; a message whose first question is
\* "local." and whose second is local; a message without a question; a
\* malformed datagram; other names
Arrivals ==
    {From(ClientA, Query(1, NameALocal, TypeA)),
     From(ClientB, Query(2, NameALocal, TypeA)),
     From(ClientA, Query(1, NameALocal, TypeAAAA)),
     From(ClientB, Datagram(2, {"QR"}, <<Question(NameALocal, TypeA)>>, <<>>)),
     From(ClientB, Datagram(2, {"RD"},
                            <<Question(NameLocal, TypeA), Question(NameALocal, TypeA)>>,
                            <<>>)),
     From(ClientA, Datagram(1, {"RD"}, <<>>, <<>>)),
     From(ClientA, Malformed)}
    \cup {From(ClientA, Query(1, n, TypeA)) :
            n \in {NameBLocal, NameAUpper, NameACom}}

\* what the mDNS responders may send
ReplyDatagrams ==
    {Datagram(ResponderId, {"QR", "AA"}, <<>>, an) :
        an \in {<<>>, <<RecordOld>>, <<RecordNew, RecordOld>>}}
    \cup {Malformed}

(***************************************************************************)
(* Processes and the PID file.                                             *)
(***************************************************************************)
\* the process that runs main(), and the one that survives daemonize()
LauncherPid == 11
DaemonPid == 12
\* the live processes of the host: pid 1 belongs to root
LivePids == {1, LauncherPid, DaemonPid}
RootOwned == {1}
DeadPid == 45

NoFile == [exists |-> FALSE, text |-> <<>>]
FileWith(text) == [exists |-> TRUE, text |-> text]

\* what may lie at the PID file path when the program starts
InitialPidFiles ==
    {NoFile,
     FileWith(<<"1", "\n">>),
     FileWith(IntToText(DeadPid) \o <<"\n">>),
     FileWith(<<"x">>)}

\* os.kill(pid, 0): what the call may answer.  A process of another user is
\* probed successfully by root and with EPERM (an OSError) by anyone else.
KillProbe(p) ==
    IF p \notin LivePids THEN {"ESRCH"}
    ELSE IF p \in RootOwned THEN {"ok", "EPERM"}
    ELSE {"ok"}

Signals == {"SIGTERM", "SIGINT", "SIGHUP"}


(***************************************************************************)
(* State.                                                                  *)
(***************************************************************************)
VARIABLES
    mode,             \* "daemon" (--daemon given) or "foreground"
    pid,              \* os.getpid() of the modelled process
    pc,               \* where the process is
    pidfile,          \* the file at args.pid_file
    handlers,         \* signals for which signal_handler is installed
    shutdown_flag,    \* the global shutdown_flag
    resolution_cache, \* the global resolution_cache: a dict, key -> record
    dns_sock,         \* "none", "bound" or "closed"
    mdns_sock,        \* "none", "open" or "closed"
    inbox,            \* datagrams waiting in dns_sock's buffer, each with
                      \* when it arrived (history)
    mbox,             \* datagrams waiting in mdns_sock's buffer, each with
                      \* the iteration whose query it answers (history)
    cur,              \* locals of the iteration: data, addr, query, rdata
    exc,              \* an exception has left run_proxy
    exitStatus,       \* the exit status; -1 while the process runs
    warned,           \* remove_pid_file has logged "Failed to remove PID file"
    \* history, not read by the program:
    arrived,          \* datagrams sent by requesters so far
    iter,             \* what the current (or last) iteration did
    resolved          \* <<name, type>> of a question -> the resolutions that
                      \* gave a record for it, oldest first: the first answer
                      \* of the reply and the id of the query

\* One run after another of a user-management module (library/freshrss_user.py,
\* library/ttrss_user.py) against the application's user store.
VARIABLES
    tool,             \* "freshrss" or "ttrss": which module runs; "none" for the daemon
    params,           \* module.params and module.check_mode, the same in every run
    db,               \* the application's user store: username -> account
    upc,              \* where main() of the module is
    user_exists,      \* the local user_exists of main()
    changes,          \* changes_needed (freshrss) or changes_made (ttrss)
    result,           \* the result dict
    cmds,             \* history: the CLI commands this run has executed
    runs,             \* history: how each finished run ended, oldest first
    cli_ok            \* history: every CLI command so far could be run

\* Two instances of the daemon that share a PID file path (see PairSpec).
VARIABLES
    procs,            \* instance -> where its main() is, its pid, its handlers,
                      \* its shutdown flag, whether run_proxy raised, its exit status
    pid_file,         \* the file at the path both instances were given
    listener          \* the instance whose dns_sock is bound to the listen address; 0: none

userVars == <<tool, params, db, upc, user_exists, changes, result, cmds, runs,
              cli_ok>>

proxyVars == <<mode, pid, pc, pidfile, handlers, shutdown_flag,
               resolution_cache, dns_sock, mdns_sock, inbox, mbox, cur, exc,
               exitStatus, warned, arrived, iter, resolved>>

pairVars == <<procs, pid_file, listener>>

vars == <<proxyVars, userVars, pairVars>>

procVars == <<mode, pid>>
netVars == <<dns_sock, mdns_sock, inbox, mbox>>
loopVars == <<resolution_cache, cur, iter, resolved>>
envVars == <<arrived>>
\* what a startup step that goes on leaves alone, the PID file aside
keptVars == <<procVars, exitStatus, warned, handlers, shutdown_flag, netVars,
              loopVars, exc, envVars>>

EmptyDict == [k \in {} |-> RecordOld]

\* history: cur.re is the iteration whose query the reply rdata answers;
\* cur.seq tells that data was the seq-th datagram to arrive, cur.mid that it
\* arrived while the loop waited for a multicast reply
NoCur == [data |-> Malformed, addr |-> "none", query |-> ParseError,
          rdata |-> Malformed, re |-> 0, seq |-> 0, mid |-> FALSE]

\* iter.n: how many datagrams the loop has received; mcast: payloads sent to the
\* multicast group; out: datagrams sent to requesters; via: how the live path
\* ended; failed: a send of this iteration was refused; outcome: how it ended;
\* asked: the iterations, this one included, whose query went to the group;
\* hit: the shutdown flag was set while this iteration handled its query
NoIter == [n |-> 0, mcast |-> <<>>, out |-> <<>>, via |-> "none",
           failed |-> FALSE, outcome |-> "none", asked |-> {}, hit |-> FALSE]

\* no user-management module runs beside the daemon
NoUserModule ==
    /\ tool = "none"
    /\ params = <<>>
    /\ db = <<>>
    /\ upc = "off"
    /\ user_exists = FALSE
    /\ changes = {}
    /\ result = <<>>
    /\ cmds = <<>>
    /\ runs = <<>>
    /\ cli_ok = TRUE

\* no pair of instances beside the daemon or the modules
NoPair ==
    /\ procs = <<>>
    /\ pid_file = NoFile
    /\ listener = 0

Init ==
    /\ mode \in {"daemon", "foreground"}
    /\ pid = LauncherPid
    /\ pc = "start"
    /\ pidfile \in InitialPidFiles
    /\ handlers = {}
    /\ shutdown_flag = FALSE
    /\ resolution_cache = EmptyDict
    /\ dns_sock = "none"
    /\ mdns_sock = "none"
    /\ inbox = <<>>
    /\ mbox = <<>>
    /\ cur = NoCur
    /\ exc = FALSE
    /\ exitStatus = -1
    /\ warned = FALSE
    /\ arrived = 0
    /\ iter = NoIter
    /\ resolved = EmptyDict
    /\ NoUserModule
    /\ NoPair

Running == pc \notin {"exited", "killed"}

\* The process ends (sys.exit, an uncaught exception, the end of main, a fatal
\* signal): its memory is gone and the system closes its sockets.  The PID file
\* and the exit status are what is left of it.
Ended(how, status) ==
    /\ pc' = how
    /\ exitStatus' = status
    /\ handlers' = {}
    /\ shutdown_flag' = FALSE
    /\ resolution_cache' = EmptyDict
    /\ dns_sock' = IF dns_sock = "none" THEN "none" ELSE "closed"
    /\ mdns_sock' = IF mdns_sock = "none" THEN "none" ELSE "closed"
    /\ inbox' = <<>>
    /\ mbox' = <<>>
    /\ cur' = NoCur
    /\ iter' = NoIter
    /\ resolved' = EmptyDict
    /\ UNCHANGED <<procVars, exc, envVars>>

\* sys.exit(status), or the interpreter ending on an uncaught exception
Exit(status) ==
    /\ Ended("exited", status)
    /\ UNCHANGED warned

(***************************************************************************)
(* main(): startup.                                                        *)
(***************************************************************************)
\* args.daemon: syslog is opened
StartDaemon ==
    /\ pc = "start"
    /\ UNCHANGED <<userVars, pairVars>>
    /\ mode = "daemon"
    /\ pc' = "check_pid"
    /\ UNCHANGED <<procVars, pidfile, handlers, shutdown_flag, netVars, loopVars,
                   exc, exitStatus, warned, envVars>>

\* (changed) foreground mode also runs the "already running" check
StartForegroundChecks ==
    /\ pc = "start"
    /\ UNCHANGED <<userVars, pairVars>>
    /\ mode = "foreground"
    /\ pc' = "check_pid"
    /\ UNCHANGED <<procVars, pidfile, handlers, shutdown_flag, netVars, loopVars,
                   exc, exitStatus, warned, envVars>>

\* else: foreground mode goes straight to the signal handlers
StartForeground ==
    /\ pc = "start"
    /\ UNCHANGED <<userVars, pairVars>>
    /\ mode = "foreground"
    /\ pc' = "signals"
    /\ UNCHANGED <<procVars, pidfile, handlers, shutdown_flag, netVars, loopVars,
                   exc, exitStatus, warned, envVars>>

\* The outcome of "Check if already running" for an existing file:
\* "running" (sys.exit(1)) or "stale" (the file is unlinked).
PidFileVerdict(file, probe) ==
    LET old_pid == ParseInt(Strip(file.text))
    IN  IF old_pid = ValueError THEN "stale"
        ELSE IF probe = "ok" THEN "running"
        ELSE "stale"

\* the answers os.kill may give for the pid recorded in the file
Probes(file) ==
    LET old_pid == ParseInt(Strip(file.text))
    IN  IF old_pid = ValueError THEN {"none"} ELSE KillProbe(old_pid)

\* "Check if already running": os.unlink may be refused, which is swallowed
CheckPidFile ==
    /\ pc = "check_pid"
    /\ UNCHANGED <<userVars, pairVars>>
    /\ IF ~pidfile.exists
       THEN /\ pc' = "daemonize"
            /\ UNCHANGED <<pidfile, keptVars>>
       ELSE \E probe \in Probes(pidfile) :
               IF PidFileVerdict(pidfile, probe) = "running"
               THEN /\ Exit(1)
                    /\ UNCHANGED pidfile
               ELSE /\ pc' = "daemonize"
                    /\ \E unlinked \in BOOLEAN :
                           pidfile' = IF unlinked THEN NoFile ELSE pidfile
                    /\ UNCHANGED keptVars

\* daemonize(): the process goes on as the second child, or the start fails
Daemonize ==
    /\ pc = "daemonize"
    /\ UNCHANGED <<userVars, pairVars>>
    /\ \E ok \in BOOLEAN :
          IF ok
          THEN /\ pid' = DaemonPid
               /\ pc' = "create_pid"
               /\ UNCHANGED <<mode, exitStatus, warned, handlers, shutdown_flag, netVars,
                              loopVars, exc, envVars>>
          ELSE Exit(1)
    /\ UNCHANGED pidfile

\* create_pid_file(): str(os.getpid()) is written, or sys.exit(1)
CreatePidFile ==
    /\ pc = "create_pid"
    /\ UNCHANGED <<userVars, pairVars>>
    /\ \E ok \in BOOLEAN :
          IF ok
          THEN /\ pidfile' = FileWith(IntToText(pid))
               /\ pc' = "signals"
               /\ UNCHANGED keptVars
          ELSE /\ Exit(1)
               /\ UNCHANGED pidfile

\* (changed) every run mode installs the handler for all three signals
HandledSignalsAll(m) == {"SIGTERM", "SIGINT", "SIGHUP"}

\* the signals main() passes to signal.signal in each mode
HandledSignals(m) ==
    IF m = "daemon" THEN {"SIGTERM", "SIGINT", "SIGHUP"}
    ELSE {"SIGTERM", "SIGINT"}

\* "Set up signal handlers"
InstallHandlers ==
    /\ pc = "signals"
    /\ UNCHANGED <<userVars, pairVars>>
    /\ handlers' = HandledSignals(mode)
    /\ pc' = "bind"
    /\ UNCHANGED <<procVars, pidfile, shutdown_flag, netVars, loopVars, exc,
                   exitStatus, warned, envVars>>

\* where an exception that leaves run_proxy goes: the finally clause of the
\* daemon branch, or (foreground) out of main
Raise ==
    IF mode = "daemon"
    THEN /\ exc' = TRUE
         /\ pc' = "finally"
         /\ UNCHANGED <<procVars, exitStatus, warned, handlers, shutdown_flag, netVars,
                        loopVars, envVars>>
    ELSE Exit(1)

\* run_proxy(), before the loop: both sockets are created, dns_sock is bound
Bind ==
    /\ pc = "bind"
    /\ UNCHANGED <<userVars, pairVars>>
    /\ \E ok \in BOOLEAN :
          IF ok
          THEN /\ dns_sock' = "bound"
               /\ mdns_sock' = "open"
               /\ pc' = "loop"
               /\ UNCHANGED <<procVars, exc, exitStatus, warned, handlers, shutdown_flag,
                              inbox, mbox, loopVars, envVars>>
          ELSE Raise
    /\ UNCHANGED pidfile

(***************************************************************************)
(* The resolution cache.                                                   *)
(***************************************************************************)
\* the f-string "{qname}:{rdtype}" of both places that build a cache key
KeyText(qname, rdtype) == qname \o <<":">> \o IntToText(rdtype)

\* (changed) the success path writes under the question name alone
WriteKeyNameOnly(query) == NameToText(query.question[1].name)

\* the key the success path writes: qname and query.question[0].rdtype
WriteKey(query) ==
    KeyText(NameToText(query.question[1].name), query.question[1].rdtype)

\* (changed) the fallback looks up the question name alone
ReadKeyNameOnly(query) == NameToText(query.question[1].name)

\* the key create_cached_response looks up: str(question.name), question.rdtype
ReadKey(query) ==
    KeyText(NameToText(query.question[1].name), query.question[1].rdtype)

\* (mutant) resolution_cache.setdefault(key, record): the first record is kept
CachePutIfAbsent(cache, key, record) ==
    [k \in DOMAIN cache \cup {key} |->
        IF k \in DOMAIN cache THEN cache[k] ELSE record]

\* (changed) the new entry replaces the whole cache
CachePutOnly(cache, key, record) == [k \in {key} |-> record]

\* resolution_cache[key] = record
CachePut(cache, key, record) ==
    [k \in DOMAIN cache \cup {key} |-> IF k = key THEN record ELSE cache[k]]

None == [error |-> "None"]

\* (mutant) the cached answer is not appended to the response
create_cached_response_bare(query, cache) ==
    IF ReadKey(query) \notin DOMAIN cache THEN None
    ELSE LET response == make_response(query)
         IN  IF response = FormError THEN None ELSE response

\* (mutant) a key that is not cached gives an empty response instead of None
create_cached_response_empty(query, cache) ==
    LET response == make_response(query)
    IN  IF response = FormError THEN None
        ELSE IF ReadKey(query) \notin DOMAIN cache THEN response
        ELSE [response EXCEPT !.answer = Append(@, cache[ReadKey(query)])]

\* create_cached_response(query): the response, or None when the key is not
\* cached or building the response raises
create_cached_response(query, cache) ==
    IF ReadKey(query) \notin DOMAIN cache THEN None
    ELSE LET response == make_response(query)
         IN  IF response = FormError THEN None
             ELSE [response EXCEPT !.answer = Append(@, cache[ReadKey(query)])]

(***************************************************************************)
(* run_proxy(): the serving loop.                                          *)
(***************************************************************************)
\* (mutant) the suffix is tested without its leading dot
IsLocalNoDot(qname) == EndsWith(qname, Tail(LOCAL_SUFFIX))

\* qname.endswith(".local.")
IsLocal(qname) == EndsWith(qname, LOCAL_SUFFIX)

\* (mutant) the reply keeps the id the responder gave it
FixIdKeep(response, query) == response

\* "Fix response ID to match the client query"
FixId(response, query) == [response EXCEPT !.id = query.id]

\* (mutant) an error that reaches the outer handler ends the loop
EndIterationBreak(outcome, failed) ==
    /\ pc' = IF outcome \in {"error", "unparsable"} THEN "cleanup" ELSE "loop"
    /\ iter' = [iter EXCEPT !.outcome = outcome, !.failed = failed]

\* the iteration is over: back to the while condition
EndIteration(outcome, failed) ==
    /\ pc' = "loop"
    /\ iter' = [iter EXCEPT !.outcome = outcome, !.failed = failed]

\* (mutant) the loop does not look at the flag
AfterCheckIgnore(flag) == "recv"

\* where the loop goes from the while condition
AfterCheck(flag) == IF flag THEN "cleanup" ELSE "recv"

\* while not shutdown_flag
LoopCheck ==
    /\ pc = "loop"
    /\ UNCHANGED <<userVars, pairVars>>
    /\ pc' = AfterCheck(shutdown_flag)
    /\ UNCHANGED <<procVars, pidfile, handlers, shutdown_flag, netVars, loopVars,
                   exc, exitStatus, warned, envVars>>

\* (changed) recvfrom returns the datagram that arrived last
RecvQueryNewest ==
    /\ pc = "recv"
    /\ UNCHANGED <<userVars, pairVars>>
    /\ inbox # <<>>
    /\ cur' = [NoCur EXCEPT !.data = inbox[Len(inbox)].data,
                             !.addr = inbox[Len(inbox)].addr,
                             !.seq = inbox[Len(inbox)].seq,
                             !.mid = inbox[Len(inbox)].mid]
    /\ inbox' = SubSeq(inbox, 1, Len(inbox) - 1)
    /\ iter' = [NoIter EXCEPT !.n = iter.n + 1, !.asked = iter.asked]
    /\ pc' = "parse"
    /\ UNCHANGED <<procVars, pidfile, handlers, shutdown_flag, resolution_cache,
                   dns_sock, mdns_sock, mbox, exc, exitStatus, warned,
                   envVars, resolved>>

\* dns_sock.recvfrom returns a datagram
RecvQuery ==
    /\ pc = "recv"
    /\ UNCHANGED <<userVars, pairVars>>
    /\ inbox # <<>>
    /\ cur' = [NoCur EXCEPT !.data = Head(inbox).data, !.addr = Head(inbox).addr,
                             !.seq = Head(inbox).seq, !.mid = Head(inbox).mid]
    /\ inbox' = Tail(inbox)
    /\ iter' = [NoIter EXCEPT !.n = iter.n + 1, !.asked = iter.asked]
    /\ pc' = "parse"
    /\ UNCHANGED <<procVars, pidfile, handlers, shutdown_flag, resolution_cache,
                   dns_sock, mdns_sock, mbox, exc, exitStatus, warned,
                   envVars, resolved>>

\* dns_sock.recvfrom times out: "allows us to check shutdown_flag periodically"
RecvTimeout ==
    /\ pc = "recv"
    /\ UNCHANGED <<userVars, pairVars>>
    /\ inbox = <<>>
    /\ pc' = "loop"
    /\ UNCHANGED <<procVars, pidfile, handlers, shutdown_flag, netVars, loopVars,
                   exc, exitStatus, warned, envVars>>

\* (changed) a datagram that does not parse is sent back to its requester
ParseQueryEchoes ==
    /\ pc = "parse"
    /\ UNCHANGED <<userVars, pairVars>>
    /\ LET query == from_wire(cur.data)
       IN  IF query = ParseError
           THEN /\ pc' = "loop"
                /\ iter' = [iter EXCEPT
                      !.out = Append(@, [to |-> cur.addr, payload |-> cur.data]),
                      !.outcome = "unparsable"]
                /\ UNCHANGED cur
           ELSE IF Len(query.question) = 0
           THEN /\ EndIteration("noquestion", FALSE)
                /\ cur' = [cur EXCEPT !.query = query]
           ELSE IF ~IsLocal(NameToText(query.question[1].name))
           THEN /\ EndIteration("nonlocal", FALSE)
                /\ cur' = [cur EXCEPT !.query = query]
           ELSE /\ pc' = "forward"
                /\ cur' = [cur EXCEPT !.query = query]
                /\ UNCHANGED iter
    /\ UNCHANGED <<procVars, pidfile, handlers, shutdown_flag, resolution_cache,
                   netVars, exc, exitStatus, warned, envVars, resolved>>

\* from_wire, the question count and the ".local." filter
ParseQuery ==
    /\ pc = "parse"
    /\ UNCHANGED <<userVars, pairVars>>
    /\ LET query == from_wire(cur.data)
       IN  IF query = ParseError
           THEN /\ EndIteration("unparsable", FALSE)
                /\ UNCHANGED cur
           ELSE IF Len(query.question) = 0
           THEN /\ EndIteration("noquestion", FALSE)
                /\ cur' = [cur EXCEPT !.query = query]
           ELSE IF ~IsLocal(NameToText(query.question[1].name))
           THEN /\ EndIteration("nonlocal", FALSE)
                /\ cur' = [cur EXCEPT !.query = query]
           ELSE /\ pc' = "forward"
                /\ cur' = [cur EXCEPT !.query = query]
                /\ UNCHANGED iter
    /\ UNCHANGED <<procVars, pidfile, handlers, shutdown_flag, resolution_cache,
                   netVars, exc, exitStatus, warned, envVars, resolved>>

\* (changed) the query is sent to the group with its transaction id set to 0,
\* as one-shot mDNS queriers do
ForwardQueryRewritesId ==
    /\ pc = "forward"
    /\ UNCHANGED <<userVars, pairVars>>
    /\ \E ok \in BOOLEAN :
          IF ok
          THEN /\ iter' = [iter EXCEPT !.mcast = Append(@, [cur.data EXCEPT !.id = 0]),
                                        !.asked = @ \cup {iter.n}]
               /\ pc' = "wait"
          ELSE EndIteration("error", TRUE)
    /\ UNCHANGED <<procVars, pidfile, handlers, shutdown_flag, resolution_cache,
                   netVars, cur, exc, exitStatus, warned, envVars, resolved>>

\* mdns_sock.sendto(data, (MDNS_ADDR, MDNS_PORT)); a refused send is caught by
\* the outer handler
ForwardQuery ==
    /\ pc = "forward"
    /\ UNCHANGED <<userVars, pairVars>>
    /\ \E ok \in BOOLEAN :
          IF ok
          THEN /\ iter' = [iter EXCEPT !.mcast = Append(@, cur.data),
                                        !.asked = @ \cup {iter.n}]
               /\ pc' = "wait"
          ELSE EndIteration("error", TRUE)
    /\ UNCHANGED <<procVars, pidfile, handlers, shutdown_flag, resolution_cache,
                   netVars, cur, exc, exitStatus, warned, envVars, resolved>>

\* mdns_sock.recvfrom returns a datagram
RecvReply ==
    /\ pc = "wait"
    /\ UNCHANGED <<userVars, pairVars>>
    /\ mbox # <<>>
    /\ cur' = [cur EXCEPT !.rdata = Head(mbox).data, !.re = Head(mbox).re]
    /\ mbox' = Tail(mbox)
    /\ pc' = "reply"
    /\ UNCHANGED <<procVars, pidfile, handlers, shutdown_flag, resolution_cache,
                   dns_sock, mdns_sock, inbox, exc, exitStatus, warned,
                   envVars, iter, resolved>>

\* (changed) a receive timeout with the shutdown flag set leaves the loop
ReplyTimeoutAbandon ==
    /\ pc = "wait"
    /\ UNCHANGED <<userVars, pairVars>>
    /\ mbox = <<>>
    /\ iter' = [iter EXCEPT !.via = "timeout"]
    /\ pc' = IF shutdown_flag THEN "cleanup" ELSE "fallback"
    /\ UNCHANGED <<procVars, pidfile, handlers, shutdown_flag, resolution_cache,
                   netVars, cur, exc, exitStatus, warned, envVars, resolved>>

\* mdns_sock.recvfrom raises socket.timeout
ReplyTimeout ==
    /\ pc = "wait"
    /\ UNCHANGED <<userVars, pairVars>>
    /\ mbox = <<>>
    /\ iter' = [iter EXCEPT !.via = "timeout"]
    /\ pc' = "fallback"
    /\ UNCHANGED <<procVars, pidfile, handlers, shutdown_flag, resolution_cache,
                   netVars, cur, exc, exitStatus, warned, envVars, resolved>>

\* (changed) a receive error other than a timeout drops the query without
\* looking at the cache
ReplyErrorDrops ==
    /\ pc = "wait"
    /\ UNCHANGED <<userVars, pairVars>>
    /\ iter' = [iter EXCEPT !.via = "error", !.outcome = "dropped"]
    /\ pc' = "loop"
    /\ UNCHANGED <<procVars, pidfile, handlers, shutdown_flag, resolution_cache,
                   netVars, cur, exc, exitStatus, warned, envVars, resolved>>

\* mdns_sock.recvfrom raises another error
ReplyError ==
    /\ pc = "wait"
    /\ UNCHANGED <<userVars, pairVars>>
    /\ iter' = [iter EXCEPT !.via = "error"]
    /\ pc' = "fallback"
    /\ UNCHANGED <<procVars, pidfile, handlers, shutdown_flag, resolution_cache,
                   netVars, cur, exc, exitStatus, warned, envVars, resolved>>

\* history: the reply rdata, which carries a record, has resolved the question
\* of the datagram data
Resolved(data, rdata) ==
    LET K == <<data.qd[1].name, data.qd[1].rdtype>>
        entry == [answer |-> rdata.an[1], by |-> data.id]
    IN  [k \in DOMAIN resolved \cup {K} |->
            IF k = K
            THEN (IF K \in DOMAIN resolved THEN resolved[K] ELSE <<>>) \o <<entry>>
            ELSE resolved[k]]

\* the success path: parse the reply, fix its id, cache its first answer, send
\* it to the requester; an error on the way goes to the fallback
HandleReply ==
    /\ pc = "reply"
    /\ UNCHANGED <<userVars, pairVars>>
    /\ LET reply == from_wire(cur.rdata)
       IN  IF reply = ParseError
           THEN /\ iter' = [iter EXCEPT !.via = "badreply"]
                /\ pc' = "fallback"
                /\ UNCHANGED <<resolution_cache, resolved>>
           ELSE LET response == FixId(reply, cur.query)
                    key == WriteKey(cur.query)
                IN  /\ IF Len(response.answer) > 0
                       THEN /\ resolution_cache' =
                                   CachePut(resolution_cache, key, response.answer[1])
                            /\ resolved' = Resolved(cur.data, cur.rdata)
                       ELSE UNCHANGED <<resolution_cache, resolved>>
                    /\ \E ok \in BOOLEAN :
                          IF ok
                          THEN /\ pc' = "loop"
                               /\ iter' = [iter EXCEPT
                                     !.out = Append(@, [to |-> cur.addr,
                                                        payload |-> to_wire(response)]),
                                     !.via = "reply",
                                     !.outcome = "live"]
                          ELSE /\ pc' = "fallback"
                               /\ iter' = [iter EXCEPT !.via = "sendfail",
                                                       !.failed = TRUE]
    /\ UNCHANGED <<procVars, pidfile, handlers, shutdown_flag, netVars, cur, exc,
                   exitStatus, warned, envVars>>

\* both except clauses of the inner try: the cached response is sent if there
\* is one; a refused send is caught by the outer handler
Fallback ==
    /\ pc = "fallback"
    /\ UNCHANGED <<userVars, pairVars>>
    /\ LET cached_response == create_cached_response(cur.query, resolution_cache)
       IN  IF cached_response = None
           THEN EndIteration("dropped", iter.failed)
           ELSE \E ok \in BOOLEAN :
                   IF ok
                   THEN /\ pc' = "loop"
                        /\ iter' = [iter EXCEPT
                              !.out = Append(@, [to |-> cur.addr,
                                                 payload |-> to_wire(cached_response)]),
                              !.outcome = "cached"]
                   ELSE EndIteration("error", TRUE)
    /\ UNCHANGED <<procVars, pidfile, handlers, shutdown_flag, resolution_cache,
                   netVars, cur, exc, exitStatus, warned, envVars, resolved>>

\* log_message prints in foreground mode (use_syslog is False), and print
\* raises OSError when the write to stdout fails.  Here a log_message call of
\* the success path raises: the one after the cache write (line 175, reached
\* only when the reply has an answer) or the one after dns_sock.sendto (line
\* 178).  Both are inside the inner try, so the handler of line 188 runs next.
HandleReplyLogFails ==
    /\ pc = "reply"
    /\ UNCHANGED <<userVars, pairVars>>
    /\ mode = "foreground"
    /\ from_wire(cur.rdata) # ParseError
    /\ LET response == FixId(from_wire(cur.rdata), cur.query)
           key == WriteKey(cur.query)
       IN  /\ IF Len(response.answer) > 0
              THEN /\ resolution_cache' =
                          CachePut(resolution_cache, key, response.answer[1])
                   /\ resolved' = Resolved(cur.data, cur.rdata)
              ELSE UNCHANGED <<resolution_cache, resolved>>
           /\ \E line \in {175, 178} :
                 IF line = 175
                 THEN /\ Len(response.answer) > 0
                      /\ iter' = [iter EXCEPT !.via = "logfail"]
                 ELSE iter' = [iter EXCEPT
                         !.out = Append(@, [to |-> cur.addr,
                                            payload |-> to_wire(response)]),
                         !.via = "logfail"]
           /\ pc' = "fallback"
    /\ UNCHANGED <<procVars, pidfile, handlers, shutdown_flag, netVars, cur, exc,
                   exitStatus, warned, envVars>>

\* a log_message call of the two handlers of the inner try raises in foreground
\* mode: the first one (lines 180, 189), before the cache is looked at, or the
\* last one (lines 185, 187, 194, 196), after the cached response, if there is
\* one, has been sent.  The outer handler of line 201 catches it.
FallbackLogFails ==
    /\ pc = "fallback"
    /\ UNCHANGED <<userVars, pairVars>>
    /\ mode = "foreground"
    /\ LET cached_response == create_cached_response(cur.query, resolution_cache)
       IN  \E first \in BOOLEAN :
              IF first \/ cached_response = None
              THEN EndIteration("error", iter.failed)
              ELSE /\ pc' = "loop"
                   /\ iter' = [iter EXCEPT
                         !.out = Append(@, [to |-> cur.addr,
                                            payload |-> to_wire(cached_response)]),
                         !.outcome = "error"]
    /\ UNCHANGED <<procVars, pidfile, handlers, shutdown_flag, resolution_cache,
                   netVars, cur, exc, exitStatus, warned, envVars, resolved>>

\* Cleanup with the multicast socket left open (lines 204-207 without
\* mdns_sock.close()).
CleanupLeavesOpen ==
    /\ pc = "cleanup"
    /\ UNCHANGED <<userVars, pairVars>>
    /\ IF mode = "daemon"
       THEN /\ pc' = "finally"
            /\ dns_sock' = "closed"
            /\ inbox' = <<>>
            /\ UNCHANGED <<procVars, exitStatus, warned, handlers, shutdown_flag,
                           loopVars, exc, envVars, mdns_sock, mbox>>
       ELSE Exit(0)
    /\ UNCHANGED pidfile

\* "Cleanup": both sockets are closed; in foreground mode main() then returns
Cleanup ==
    /\ pc = "cleanup"
    /\ UNCHANGED <<userVars, pairVars>>
    /\ IF mode = "daemon"
       THEN /\ pc' = "finally"
            /\ dns_sock' = "closed"
            /\ mdns_sock' = "closed"
            /\ inbox' = <<>>
            /\ mbox' = <<>>
            /\ UNCHANGED <<procVars, exitStatus, warned, handlers, shutdown_flag,
                           loopVars, exc, envVars>>
       ELSE Exit(0)
    /\ UNCHANGED pidfile

\* (mutant) the file is left in place
remove_pid_file_keep(file, unlinked) == file

\* remove_pid_file(pid_file): a refused unlink is logged and swallowed
remove_pid_file(file, unlinked) ==
    IF file.exists /\ unlinked THEN NoFile ELSE file

\* (mutant) the exception is lost in the finally clause
FinalStatusZero(raised) == 0

\* the exit status of the daemon branch when its finally clause is done
FinalStatus(raised) == IF raised THEN 1 ELSE 0

\* finally: remove_pid_file, syslog.closelog, then the process ends
Finally ==
    /\ pc = "finally"
    /\ UNCHANGED <<userVars, pairVars>>
    /\ \E unlinked \in BOOLEAN :
          /\ pidfile' = remove_pid_file(pidfile, unlinked)
          /\ warned' = (pidfile.exists /\ ~unlinked)
    /\ Ended("exited", FinalStatus(exc))

(***************************************************************************)
(* The environment.                                                        *)
(***************************************************************************)
SignalNumber(s) ==
    CASE s = "SIGHUP" -> 1 [] s = "SIGINT" -> 2 [] s = "SIGTERM" -> 15

\* signal_handler(signum, frame)
signal_handler ==
    /\ shutdown_flag' = TRUE
    /\ iter' = [iter EXCEPT !.hit = @ \/ (~shutdown_flag /\ pc \in
                    {"parse", "forward", "wait", "reply", "fallback"})]
    /\ UNCHANGED <<procVars, pc, exitStatus, warned, handlers, resolution_cache, netVars,
                   cur, exc, envVars, resolved>>

\* a signal is delivered: the handler runs, or the default action ends the process
Signal(s) ==
    /\ Running
    /\ UNCHANGED <<userVars, pairVars>>
    /\ IF s \in handlers
       THEN signal_handler
       ELSE /\ Ended("killed", 128 + SignalNumber(s))
            /\ UNCHANGED warned
    /\ UNCHANGED pidfile

\* The process looks at a socket's buffer only in recvfrom, so a datagram that
\* arrives between two blocking calls has the effect of one that arrives at the
\* start of the next: arrivals are modelled while the process is blocked.
Blocked == pc \in {"recv", "wait"}

\* a requester sends a datagram to the listening port
QueryArrives(q) ==
    /\ Blocked
    /\ UNCHANGED <<userVars, pairVars>>
    /\ dns_sock = "bound"
    /\ arrived < MaxQueries
    /\ Len(inbox) < MaxInbox
    /\ inbox' = Append(inbox, [data |-> q.data, addr |-> q.addr,
                                seq |-> arrived + 1, mid |-> pc = "wait"])
    /\ arrived' = arrived + 1
    /\ UNCHANGED <<procVars, pc, pidfile, handlers, shutdown_flag,
                   resolution_cache, dns_sock, mdns_sock, mbox, cur, exc,
                   exitStatus, warned, iter, resolved>>

\* an mDNS responder answers a query that was multicast from mdns_sock
ReplyArrives(d) ==
    /\ pc = "wait"
    /\ UNCHANGED <<userVars, pairVars>>
    /\ mdns_sock = "open"
    /\ Len(mbox) < MaxMbox
    /\ \E re \in iter.asked : mbox' = Append(mbox, [data |-> d, re |-> re])
    /\ UNCHANGED <<procVars, pc, pidfile, handlers, shutdown_flag,
                   resolution_cache, dns_sock, mdns_sock, inbox, cur, exc,
                   exitStatus, warned, arrived, iter, resolved>>

Next ==
    \/ StartDaemon
    \/ StartForeground
    \/ CheckPidFile
    \/ Daemonize
    \/ CreatePidFile
    \/ InstallHandlers
    \/ Bind
    \/ LoopCheck
    \/ RecvQuery
    \/ RecvTimeout
    \/ ParseQuery
    \/ ForwardQuery
    \/ RecvReply
    \/ ReplyTimeout
    \/ ReplyError
    \/ HandleReply
    \/ Fallback
    \/ Cleanup
    \/ Finally
    \/ \E s \in Signals : Signal(s)
    \/ \E q \in Arrivals : QueryArrives(q)
    \/ \E d \in ReplyDatagrams : ReplyArrives(d)

Spec == Init /\ [][Next]_vars

\* the steps of the process itself.  It is the only thread of its program and
\* every call it blocks in has a timeout, so it always takes its next step.
Proc ==
    \/ StartDaemon
    \/ StartForeground
    \/ CheckPidFile
    \/ Daemonize
    \/ CreatePidFile
    \/ InstallHandlers
    \/ Bind
    \/ LoopCheck
    \/ RecvQuery
    \/ RecvTimeout
    \/ ParseQuery
    \/ ForwardQuery
    \/ RecvReply
    \/ ReplyTimeout
    \/ ReplyError
    \/ HandleReply
    \/ Fallback
    \/ Cleanup
    \/ Finally

FairSpec == Spec /\ WF_vars(Proc)

\* The daemon where, beside everything else, a write to stdout may fail: Spec
\* takes every log_message call to return, LogSpec lets those of the inner try
\* statement of run_proxy (lines 164-196) raise.
LogNext ==
    \/ Next
    \/ HandleReplyLogFails
    \/ FallbackLogFails

LogSpec == Init /\ [][LogNext]_vars

(***************************************************************************)
(* The user-management modules: library/freshrss_user.py and               *)
(* library/ttrss_user.py.  Each run of main() asks the application's CLI   *)
(* whether the user exists and then creates, updates or removes it.        *)
(***************************************************************************)
\* runs of the module in a row, with the same parameters
MaxRuns == 2

UserBob == <<"b", "o", "b">>
UserBot == <<"F", "r", "e", "s", "h", "R", "S", "S", "b", "o", "t">>
UserNames == {UserBob, UserBot}

\* str.startswith(prefix)
StartsWith(s, prefix) ==
    Len(s) >= Len(prefix) /\ SubSeq(s, 1, Len(prefix)) = prefix

RECURSIVE SplitLines(_)
\* str.split('\n')
SplitLines(text) ==
    IF \E i \in 1..Len(text) : text[i] = "\n"
    THEN LET i == CHOOSE k \in 1..Len(text) :
                      text[k] = "\n" /\ \A j \in 1..(k - 1) : text[j] # "\n"
         IN  <<SubSeq(text, 1, i - 1)>> \o SplitLines(SubSeq(text, i + 1, Len(text)))
    ELSE <<text>>

RECURSIVE PrintLines(_)
\* what the CLI prints for a set of names: one name per line
PrintLines(names) ==
    IF names = {} THEN <<>>
    ELSE LET n == CHOOSE x \in names : TRUE
         IN  n \o <<"\n">> \o PrintLines(names \ {n})

\* an account of the application
Account(password, email, language, level, api) ==
    [password |-> password, email |-> email, language |-> language,
     level |-> level, api |-> api]

\* what a created account has besides what the command line gives
DefaultLevel == 0
DefaultApi == FALSE

\* subprocess.run in _run_command: the return code and the standard output.
\* A command that could not be run (no such binary, sudo refused) gives 1.
Ran(returncode, stdout) == [returncode |-> returncode, stdout |-> stdout]
NotRun == Ran(1, <<>>)

\* cli/list-users.php
ListUsersCli(store) == Ran(0, PrintLines(DOMAIN store))

\* update.php --user-exists
UserExistsCli(store, name) == Ran(IF name \in DOMAIN store THEN 0 ELSE 1, <<>>)

\* FreshRssUserManager.list_users: the names on the lines of the output that
\* are not empty and do not look like a header
list_users(run) ==
    IF run.returncode = 0
    THEN LET lines == SplitLines(Strip(run.stdout))
             clean == {Strip(lines[i]) : i \in 1..Len(lines)}
         IN  {l \in clean : /\ l # <<>>
                            /\ ~StartsWith(l, <<"F", "r", "e", "s", "h", "R", "S", "S">>)
                            /\ ~StartsWith(l, <<"=">>)}
    ELSE {}

\* FreshRssUserManager.user_exists / TtRssUserManager.user_exists, given the
\* outcome of the command each of them runs
freshrss_user_exists(run, username) == username \in list_users(run)
ttrss_user_exists(run) == run.returncode = 0

\* module.params (with module.check_mode) of the two modules.  password ""
\* stands for a password that is not given or empty: both are false in Python.
FreshrssParams ==
    [username : UserNames, state : {"present", "absent"}, check_mode : BOOLEAN,
     password : {"", "pw"}, email : {"", "a@b"}, language : {"en"},
     access_level : {0}, api_enabled : {FALSE}]

TtrssParams ==
    [username : UserNames, state : {"present", "absent"}, check_mode : BOOLEAN,
     password : {"", "pw"}, email : {""}, language : {"en"},
     access_level : {0, 10}, api_enabled : BOOLEAN]

\* the accounts the user may have before the first run
FreshrssAccounts ==
    {Account(p, e, l, DefaultLevel, DefaultApi) :
        p \in {"old", "pw"}, e \in {"", "a@b"}, l \in {"en", "fr"}}

TtrssAccounts ==
    {Account(p, "", "en", lv, a) : p \in {"old", "pw"}, lv \in {0, 10}, a \in BOOLEAN}

\* the account of a user the module is not asked about
OtherAccount == Account("other", "", "en", DefaultLevel, DefaultApi)

\* a store with one more account
WithUser(store, name, account) ==
    [n \in DOMAIN store \cup {name} |-> IF n = name THEN account ELSE store[n]]

\* a store with one account less
WithoutUser(store, name) == [n \in DOMAIN store \ {name} |-> store[n]]

NoUsers == [n \in {} |-> OtherAccount]

\* the stores the first run may find
InitialStores(accounts, name) ==
    LET others == {NoUsers} \cup
                  {WithUser(NoUsers, n, OtherAccount) : n \in UserNames \ {name}}
    IN  others \cup {WithUser(o, name, a) : o \in others, a \in accounts}

\* result = dict(changed=False, msg='', user_exists=False)
NoResult == [changed |-> FALSE, msg |-> "", user_exists |-> FALSE]

\* main() is about to ask whether the user exists
RunStarts ==
    /\ upc = "user_exists"
    /\ user_exists = FALSE
    /\ changes = {}
    /\ result = NoResult
    /\ cmds = <<>>

\* the daemon is not there while a module runs
NoDaemon ==
    /\ mode = "foreground"
    /\ pid = LauncherPid
    /\ pc = "start"
    /\ pidfile = NoFile
    /\ handlers = {}
    /\ shutdown_flag = FALSE
    /\ resolution_cache = EmptyDict
    /\ dns_sock = "none"
    /\ mdns_sock = "none"
    /\ inbox = <<>>
    /\ mbox = <<>>
    /\ cur = NoCur
    /\ exc = FALSE
    /\ exitStatus = -1
    /\ warned = FALSE
    /\ arrived = 0
    /\ iter = NoIter
    /\ resolved = EmptyDict

UserInit ==
    /\ NoDaemon
    /\ NoPair
    /\ tool \in {"freshrss", "ttrss"}
    /\ params \in (IF tool = "freshrss" THEN FreshrssParams ELSE TtrssParams)
    /\ db \in InitialStores(IF tool = "freshrss" THEN FreshrssAccounts
                            ELSE TtrssAccounts, params.username)
    /\ runs = <<>>
    /\ cli_ok = TRUE
    /\ RunStarts

\* main() goes on at p with the result dict res and the change list ch; when p
\* ends the run (module.exit_json, module.fail_json) the run is recorded
Goto(p, res, ch) ==
    /\ upc' = p
    /\ result' = res
    /\ changes' = ch
    /\ runs' = IF p \in {"exited", "failed"}
               THEN Append(runs, [failed |-> p = "failed", result |-> res,
                                  cmds |-> cmds'])
               ELSE runs

\* module.exit_json(**result)
ExitJson(res) == Goto("exited", res, changes)

\* module.fail_json(msg=...)
FailJson == Goto("failed", result, changes)

\* _run_command has run one more CLI command
Executed(command) == cmds' = Append(cmds, command)

\* the CLI commands that only read the user store
ReadOnlyCommands == {"list-users", "user-info", "user-exists", "user-check-password"}

\* the name of the command that answers user_exists
ExistsCommand == IF tool = "freshrss" THEN "list-users" ELSE "user-exists"

\* the result dict with some entries set
Changed(res, msg) == [res EXCEPT !.changed = TRUE, !.msg = msg]

\* where main() goes once it knows whether the user exists
AfterUserExists(exists) ==
    LET res == [result EXCEPT !.user_exists = exists]
    IN  IF params.state = "present"
        THEN IF ~exists
             THEN IF params.password = "" THEN Goto("failed", res, changes)
                  ELSE IF params.check_mode
                       THEN ExitJson(Changed(res, "would create"))
                       ELSE Goto("add_user", res, changes)
             ELSE IF tool = "freshrss" THEN Goto("get_user_info", res, changes)
                  ELSE IF params.password # ""
                       THEN Goto("check_password", res, changes)
                       ELSE IF params.check_mode
                            THEN ExitJson([res EXCEPT !.msg = "already correct"])
                            ELSE Goto("set_access_level", res, changes)
        ELSE IF exists
             THEN IF params.check_mode
                  THEN ExitJson(Changed(res, "would remove"))
                  ELSE Goto("remove_user", res, changes)
             ELSE ExitJson([res EXCEPT !.msg = "does not exist"])

\* user_exists = manager.user_exists(username)
QueryUserExists ==
    /\ upc = "user_exists"
    /\ UNCHANGED <<proxyVars, pairVars>>
    /\ \E ran \in BOOLEAN :
         /\ cli_ok' = (cli_ok /\ ran)
         /\ LET run == IF ~ran THEN NotRun
                       ELSE IF tool = "freshrss" THEN ListUsersCli(db)
                       ELSE UserExistsCli(db, params.username)
                exists == IF tool = "freshrss"
                          THEN freshrss_user_exists(run, params.username)
                          ELSE ttrss_user_exists(run)
            IN  /\ user_exists' = exists
                /\ Executed(ExistsCommand)
                /\ AfterUserExists(exists)
    /\ UNCHANGED <<tool, params, db>>

\* a CLI command that changes an account succeeds when it could be run and the
\* user is there
Succeeds(ran) == ran /\ params.username \in DOMAIN db

\* the store after a successful command on the user's account
Updated(field, value) ==
    [db EXCEPT ![params.username] = [@ EXCEPT ![field] = value]]

\* manager.add_user: cli/create-user.php (freshrss), update.php --user-add (ttrss)
AddUser ==
    /\ upc = "add_user"
    /\ UNCHANGED <<proxyVars, pairVars>>
    /\ Executed("user-add")
    /\ \E ran \in BOOLEAN :
         /\ cli_ok' = (cli_ok /\ ran)
         /\ IF ran /\ params.username \notin DOMAIN db
            THEN /\ db' = WithUser(db, params.username,
                            Account(params.password, params.email, params.language,
                                    IF tool = "ttrss" THEN params.access_level
                                    ELSE DefaultLevel, DefaultApi))
                 /\ LET res == [Changed(result, "created") EXCEPT !.user_exists = TRUE]
                    IN  IF tool = "ttrss" /\ params.api_enabled
                        THEN Goto("enable_api", res, changes)
                        ELSE ExitJson(res)
            ELSE /\ db' = db
                 /\ FailJson
    /\ UNCHANGED <<tool, params, user_exists>>

\* manager.set_api_access(name, True) after the user was created
EnableApi ==
    /\ upc = "enable_api"
    /\ UNCHANGED <<proxyVars, pairVars>>
    /\ Executed("user-enable-api")
    /\ \E ran \in BOOLEAN :
         /\ cli_ok' = (cli_ok /\ ran)
         /\ IF Succeeds(ran)
            THEN /\ db' = Updated("api", TRUE)
                 /\ ExitJson([result EXCEPT !.msg = "created with API access enabled"])
            ELSE /\ db' = db
                 /\ ExitJson([result EXCEPT !.msg = "created but failed to enable API access"])
    /\ UNCHANGED <<tool, params, user_exists>>

\* manager.remove_user: cli/delete-user.php, update.php --user-remove
RemoveUser ==
    /\ upc = "remove_user"
    /\ UNCHANGED <<proxyVars, pairVars>>
    /\ Executed("user-remove")
    /\ \E ran \in BOOLEAN :
         /\ cli_ok' = (cli_ok /\ ran)
         /\ IF Succeeds(ran)
            THEN /\ db' = WithoutUser(db, params.username)
                 /\ ExitJson([Changed(result, "removed") EXCEPT !.user_exists = FALSE])
            ELSE /\ db' = db
                 /\ FailJson
    /\ UNCHANGED <<tool, params, user_exists>>

\* the dict get_user_info returns: {} when the command failed
NoInfo == [email |-> "", language |-> ""]
get_user_info(ran) ==
    IF Succeeds(ran)
    THEN [email |-> db[params.username].email,
          language |-> db[params.username].language]
    ELSE NoInfo

\* changes_needed of freshrss_user.main
changes_needed(user_info) ==
    (IF params.password # "" THEN {"password"} ELSE {})
    \cup (IF params.email # "" /\ user_info.email # params.email
          THEN {"email"} ELSE {})
    \cup (IF params.language # "" /\ user_info.language # params.language
          THEN {"language"} ELSE {})

\* freshrss, the user exists: user_info = manager.get_user_info(username)
GetUserInfo ==
    /\ upc = "get_user_info"
    /\ UNCHANGED <<proxyVars, pairVars>>
    /\ Executed("user-info")
    /\ \E ran \in BOOLEAN :
         /\ cli_ok' = (cli_ok /\ ran)
         /\ LET needed == changes_needed(get_user_info(ran))
            IN  IF needed = {}
                THEN Goto("exited", [result EXCEPT !.msg = "already correct"], needed)
                ELSE IF params.check_mode
                     THEN Goto("exited", Changed(result, "would update"), needed)
                     ELSE Goto("update_user", result, needed)
    /\ UNCHANGED <<tool, params, db, user_exists>>

\* the account after cli/update-user.php with the fields in changes
AfterUpdate(account, fields) ==
    [f \in DOMAIN account |-> IF f \in fields THEN params[f] ELSE account[f]]

\* manager.update_user
UpdateUser ==
    /\ upc = "update_user"
    /\ UNCHANGED <<proxyVars, pairVars>>
    /\ Executed("user-update")
    /\ \E ran \in BOOLEAN :
         /\ cli_ok' = (cli_ok /\ ran)
         /\ IF Succeeds(ran)
            THEN /\ db' = [db EXCEPT ![params.username] = AfterUpdate(@, changes)]
                 /\ ExitJson(Changed(result, "updated"))
            ELSE /\ db' = db
                 /\ FailJson
    /\ UNCHANGED <<tool, params, user_exists>>

\* ttrss, the user exists: the end of the branch, from "if changes_made" on
Finish(ch) ==
    IF ch # {}
    THEN Goto("exited", Changed(result, "updated"), ch)
    ELSE Goto("exited", [result EXCEPT !.msg = "already correct"], ch)

\* (changed) the module goes on to set the access level in check mode too
AfterPasswordAlways(ch) == Goto("set_access_level", result, ch)

\* ttrss, after the password: the two "if not module.check_mode" blocks
AfterPassword(ch) ==
    IF params.check_mode THEN Finish(ch) ELSE Goto("set_access_level", result, ch)

\* manager.check_password: update.php --user-check-password
CheckPassword ==
    /\ upc = "check_password"
    /\ UNCHANGED <<proxyVars, pairVars>>
    /\ Executed("user-check-password")
    /\ \E ran \in BOOLEAN :
         /\ cli_ok' = (cli_ok /\ ran)
         /\ IF Succeeds(ran) /\ db[params.username].password = params.password
            THEN AfterPassword(changes)
            ELSE IF params.check_mode
                 THEN AfterPassword(changes \cup {"password would be updated"})
                 ELSE Goto("set_password", result, changes)
    /\ UNCHANGED <<tool, params, db, user_exists>>

\* manager.set_password: update.php --user-set-password
SetPassword ==
    /\ upc = "set_password"
    /\ UNCHANGED <<proxyVars, pairVars>>
    /\ Executed("user-set-password")
    /\ \E ran \in BOOLEAN :
         /\ cli_ok' = (cli_ok /\ ran)
         /\ IF Succeeds(ran)
            THEN /\ db' = Updated("password", params.password)
                 /\ AfterPassword(changes \cup {"password updated"})
            ELSE /\ db' = db
                 /\ FailJson
    /\ UNCHANGED <<tool, params, user_exists>>

\* manager.set_access_level: update.php --user-set-access-level.  What the
\* command prints is the application's business: it may or may not contain
\* "access level N".  A failure is ignored.
SetAccessLevel ==
    /\ upc = "set_access_level"
    /\ UNCHANGED <<proxyVars, pairVars>>
    /\ Executed("user-set-access-level")
    /\ \E ran \in BOOLEAN, printed \in BOOLEAN :
         /\ cli_ok' = (cli_ok /\ ran)
         /\ IF Succeeds(ran)
            THEN /\ db' = Updated("level", params.access_level)
                 /\ Goto("set_api_access", result,
                         IF printed THEN changes
                         ELSE changes \cup {"access level set"})
            ELSE /\ db' = db
                 /\ ~printed
                 /\ Goto("set_api_access", result, changes)
    /\ UNCHANGED <<tool, params, user_exists>>

\* manager.set_api_access(name, api_enabled): update.php --user-enable-api.
\* A failure is ignored.
SetApiAccess ==
    /\ upc = "set_api_access"
    /\ UNCHANGED <<proxyVars, pairVars>>
    /\ Executed("user-enable-api")
    /\ \E ran \in BOOLEAN :
         /\ cli_ok' = (cli_ok /\ ran)
         /\ IF Succeeds(ran)
            THEN /\ db' = Updated("api", params.api_enabled)
                 /\ Finish(changes \cup {"API access"})
            ELSE /\ db' = db
                 /\ Finish(changes)
    /\ UNCHANGED <<tool, params, user_exists>>

\* the module is run again, with the same parameters
NextRun ==
    /\ upc \in {"exited", "failed"}
    /\ Len(runs) < MaxRuns
    /\ UNCHANGED <<proxyVars, pairVars>>
    /\ upc' = "user_exists"
    /\ user_exists' = FALSE
    /\ changes' = {}
    /\ result' = NoResult
    /\ cmds' = <<>>
    /\ UNCHANGED <<tool, params, db, runs, cli_ok>>

UserNext ==
    \/ QueryUserExists
    \/ AddUser
    \/ EnableApi
    \/ RemoveUser
    \/ GetUserInfo
    \/ UpdateUser
    \/ CheckPassword
    \/ SetPassword
    \/ SetAccessLevel
    \/ SetApiAccess
    \/ NextRun

UserSpec == UserInit /\ [][UserNext]_vars

(***************************************************************************)
(* Two instances of the daemon started with the same --pid-file and the    *)
(* same listen address.  Each runs main() with --daemon: the "already      *)
(* running" check, daemonize, create_pid_file, the handlers, run_proxy     *)
(* (bind, the serving loop, the cleanup) and the finally clause.  The      *)
(* serving loop is one position here: what it does with queries does not   *)
(* touch the PID file.                                                     *)
(***************************************************************************)
Instances == {1, 2}

\* the pid of the process that runs main() for an instance, and of the one
\* that survives daemonize()
LauncherOf(i) == 10 * i + 1
DaemonOf(i) == 10 * i + 2

\* what may lie at the PID file path before either instance starts
PairInitialPidFiles == {NoFile, FileWith(IntToText(DeadPid) \o <<"\n">>)}

InstanceEnded(i) == procs[i].pc \in {"exited", "killed"}

\* the instance is in the loop of run_proxy
Serving(i) == procs[i].pc = "serving"

\* the pids of the processes that run now
PairLivePids == {procs[i].pid : i \in {j \in Instances : ~InstanceEnded(j)}}

\* os.kill(old_pid, 0) for the pid recorded in the file; both instances run
\* as the same user
PairProbes(file) ==
    LET old_pid == ParseInt(Strip(file.text))
    IN  IF old_pid = ValueError THEN {"none"}
        ELSE IF old_pid \in PairLivePids THEN {"ok"}
        ELSE {"ESRCH"}

PairInit ==
    /\ NoDaemon
    /\ NoUserModule
    /\ procs = [i \in Instances |->
                  [pc |-> "check_pid", pid |-> LauncherOf(i), handlers |-> {},
                   shutdown_flag |-> FALSE, exc |-> FALSE, status |-> -1]]
    /\ pid_file \in PairInitialPidFiles
    /\ listener = 0

\* instance i goes on at p
At(i, p) == procs' = [procs EXCEPT ![i].pc = p]

\* the process of instance i ends; the system closes its socket
InstanceEnds(i, how, status) ==
    /\ procs' = [procs EXCEPT ![i].pc = how, ![i].status = status,
                              ![i].handlers = {}]
    /\ listener' = IF listener = i THEN 0 ELSE listener

\* "Check if already running" of instance i
PairCheckPidFile(i) ==
    /\ procs[i].pc = "check_pid"
    /\ UNCHANGED <<proxyVars, userVars>>
    /\ IF ~pid_file.exists
       THEN /\ At(i, "daemonize")
            /\ UNCHANGED <<pid_file, listener>>
       ELSE \E probe \in PairProbes(pid_file) :
               IF PidFileVerdict(pid_file, probe) = "running"
               THEN /\ InstanceEnds(i, "exited", 1)
                    /\ UNCHANGED pid_file
               ELSE /\ At(i, "daemonize")
                    /\ \E unlinked \in BOOLEAN :
                           pid_file' = IF unlinked THEN NoFile ELSE pid_file
                    /\ UNCHANGED listener

\* daemonize() of instance i
PairDaemonize(i) ==
    /\ procs[i].pc = "daemonize"
    /\ UNCHANGED <<proxyVars, userVars>>
    /\ \E ok \in BOOLEAN :
          IF ok
          THEN /\ procs' = [procs EXCEPT ![i].pc = "create_pid",
                                         ![i].pid = DaemonOf(i)]
               /\ UNCHANGED listener
          ELSE InstanceEnds(i, "exited", 1)
    /\ UNCHANGED pid_file

\* create_pid_file() of instance i: open(pid_file, 'w') truncates whatever is
\* there
PairCreatePidFile(i) ==
    /\ procs[i].pc = "create_pid"
    /\ UNCHANGED <<proxyVars, userVars>>
    /\ \E ok \in BOOLEAN :
          IF ok
          THEN /\ pid_file' = FileWith(IntToText(procs[i].pid))
               /\ At(i, "signals")
               /\ UNCHANGED listener
          ELSE /\ InstanceEnds(i, "exited", 1)
               /\ UNCHANGED pid_file

\* "Set up signal handlers" of instance i
PairInstallHandlers(i) ==
    /\ procs[i].pc = "signals"
    /\ UNCHANGED <<proxyVars, userVars>>
    /\ procs' = [procs EXCEPT ![i].pc = "bind",
                              ![i].handlers = HandledSignals("daemon")]
    /\ UNCHANGED <<pid_file, listener>>

\* dns_sock.bind of instance i: refused while the other instance holds the
\* address (no SO_REUSEADDR is set), and the exception leaves run_proxy
PairBind(i) ==
    /\ procs[i].pc = "bind"
    /\ UNCHANGED <<proxyVars, userVars>>
    /\ \E ok \in BOOLEAN :
          IF ok /\ listener = 0
          THEN /\ listener' = i
               /\ At(i, "serving")
          ELSE /\ procs' = [procs EXCEPT ![i].pc = "finally", ![i].exc = TRUE]
               /\ UNCHANGED listener
    /\ UNCHANGED pid_file

\* the while condition of instance i sees the shutdown flag; "Cleanup" closes
\* the sockets
PairCleanup(i) ==
    /\ Serving(i)
    /\ UNCHANGED <<proxyVars, userVars>>
    /\ procs[i].shutdown_flag
    /\ At(i, "finally")
    /\ listener' = 0
    /\ UNCHANGED pid_file

\* the finally clause of instance i: remove_pid_file removes the file at the
\* path, whoever wrote it
PairFinally(i) ==
    /\ procs[i].pc = "finally"
    /\ UNCHANGED <<proxyVars, userVars>>
    /\ \E unlinked \in BOOLEAN : pid_file' = remove_pid_file(pid_file, unlinked)
    /\ InstanceEnds(i, "exited", FinalStatus(procs[i].exc))

\* a signal is delivered to instance i
PairSignal(i, s) ==
    /\ ~InstanceEnded(i)
    /\ UNCHANGED <<proxyVars, userVars>>
    /\ IF s \in procs[i].handlers
       THEN /\ procs' = [procs EXCEPT ![i].shutdown_flag = TRUE]
            /\ UNCHANGED listener
       ELSE InstanceEnds(i, "killed", 128 + SignalNumber(s))
    /\ UNCHANGED pid_file

PairNext ==
    \E i \in Instances :
       \/ PairCheckPidFile(i)
       \/ PairDaemonize(i)
       \/ PairCreatePidFile(i)
       \/ PairInstallHandlers(i)
       \/ PairBind(i)
       \/ PairCleanup(i)
       \/ PairFinally(i)
       \/ \E s \in Signals : PairSignal(i, s)

PairSpec == PairInit /\ [][PairNext]_vars

(***************************************************************************)
(* Properties.                                                             *)
(***************************************************************************)
\* the text of a name ends with ".local.": its last label is "local" and
\* another label precedes it
EndsInLocalLabel(name) == Len(name) >= 2 /\ name[Len(name)] = LabelLocal

\* the iteration that received cur.data is over
IterationOver == iter.outcome # "none"

\* the key (question name, question type) of the datagram being handled
CurKey == <<cur.data.qd[1].name, cur.data.qd[1].rdtype>>

\* the datagram sent to the requester
ToRequester(payload) == [to |-> cur.addr, payload |-> payload]

\* C1: a received query whose first question name does not end with ".local."
\* (case-sensitive, the dot before "local" required) is never forwarded: its
\* iteration sends nothing to the multicast group and nothing to the requester.
C1_NonLocalSendsNothing ==
    (/\ cur.data.wellformed
     /\ Len(cur.data.qd) > 0
     /\ ~EndsInLocalLabel(cur.data.qd[1].name))
    => /\ iter.mcast = <<>>
       /\ iter.out = <<>>
       /\ pc \notin {"forward", "wait", "reply", "fallback"}

\* a query for "a.LOCAL." has been handled
C1_Witness ==
    /\ iter.outcome = "nonlocal"
    /\ cur.data.qd[1].name = NameAUpper
    /\ pc = "recv"

\* C2: when the iteration got a multicast reply and its send was not refused,
\* exactly the reply is sent to the requester, with the id of the requester's
\* query in place of the id the responder gave it; and no datagram sent to a
\* requester ever carries another id than that of the query being handled.
C2_ReplyCarriesQueryId ==
    /\ (IterationOver /\ cur.rdata.wellformed /\ ~iter.failed)
       => iter.out = <<ToRequester([cur.rdata EXCEPT !.id = cur.data.id])>>
    /\ \A i \in 1..Len(iter.out) : iter.out[i].payload.id = cur.data.id

\* a reply whose id differs from the query's has been sent on
C2_Witness ==
    /\ iter.outcome = "live"
    /\ cur.rdata.id # cur.data.id
    /\ Len(cur.rdata.an) > 0

\* the response make_response builds for the query data, with one answer
CachedAnswer(data, record) ==
    Datagram(data.id, {"QR"} \cup (data.flags \cap {"RD"}), data.qd, <<record>>)

\* C3: once a reply has resolved key K with a record, a later query for K whose
\* multicast wait times out is answered (unless the send is refused) with a
\* response that has the latest such record as its answer section and the id
\* of this later query.
C3_TimeoutAnsweredFromCache ==
    (/\ IterationOver
     /\ iter.via = "timeout"
     /\ ~iter.failed
     /\ "QR" \notin cur.data.flags
     /\ CurKey \in DOMAIN resolved)
    => iter.out = <<ToRequester(CachedAnswer(cur.data,
                         resolved[CurKey][Len(resolved[CurKey])].answer))>>

\* a timed-out query was answered from a record cached for a query with
\* another id
C3_Witness ==
    /\ iter.outcome = "cached"
    /\ iter.via = "timeout"
    /\ resolved[CurKey][Len(resolved[CurKey])].by # cur.data.id

\* C4: a ".local." query whose key was never resolved with a record and whose
\* multicast wait times out gets no datagram at all.
C4_TimeoutWithoutCacheSendsNothing ==
    (IterationOver /\ iter.via = "timeout" /\ CurKey \notin DOMAIN resolved)
    => iter.out = <<>>

\* a query timed out while only another key was cached
C4_Witness ==
    /\ iter.outcome = "dropped"
    /\ iter.via = "timeout"
    /\ DOMAIN resolved # {}
    /\ CurKey \notin DOMAIN resolved

\* the queries a requester may send for which a response can be built
ClientQueries ==
    {a.data : a \in {b \in Arrivals : /\ b.data.wellformed
                                      /\ Len(b.data.qd) > 0
                                      /\ "QR" \notin b.data.flags}}

\* C5: the cache is last-write-wins with one entry per key: for every key that
\* was resolved, whatever was resolved before and between, a fallback lookup
\* gives exactly one record, the one of the latest resolution.
C5_LastWriteWins ==
    \A q \in ClientQueries :
        LET K == <<q.qd[1].name, q.qd[1].rdtype>>
            found == create_cached_response(from_wire(q), resolution_cache)
        IN  K \in DOMAIN resolved
            => /\ found # None
               /\ found.answer = <<resolved[K][Len(resolved[K])].answer>>

\* a key has been resolved twice, with different records
C5_Witness ==
    \E K \in DOMAIN resolved :
        /\ Len(resolved[K]) >= 2
        /\ resolved[K][1].answer # resolved[K][2].answer

\* where the process is while it handles a received datagram
IterPcs == {"parse", "forward", "wait", "reply", "fallback"}

\* where the process is while it is in the while loop of run_proxy
LoopPcs == {"loop", "recv"} \cup IterPcs

\* where the process is while it is in run_proxy
ServingPcs == {"bind", "cleanup"} \cup LoopPcs

\* C6: once a handled signal has set the shutdown flag, the flag stays set, the
\* loop starts no poll any more (only a poll that was already under way may
\* still return a query), and the loop is eventually left.
C6_SignalStopsLoop ==
    /\ [][shutdown_flag => /\ shutdown_flag' \/ ~Running'
                           /\ pc # "recv" => pc' # "recv"]_vars
    /\ ((shutdown_flag /\ pc \in LoopPcs) ~> pc \notin LoopPcs)

\* the flag was set while the loop served; the iteration was finished and the
\* loop was left
C6_Witness ==
    /\ pc = "cleanup"
    /\ shutdown_flag
    /\ iter.n >= 1
    /\ IterationOver

\* C7: in daemon mode run_proxy is only left into the finally clause (no signal
\* ends the process from inside it), and the finally clause ends the process
\* with the PID file removed unless remove_pid_file logged that the removal
\* failed; the exit status is 1 after an exception and 0 otherwise, whether
\* or not the removal failed.
C7_PidFileRemovedOnExit ==
    [][mode = "daemon" =>
         /\ (pc \in ServingPcs /\ pc' \notin ServingPcs) => pc' = "finally"
         /\ (pc = "finally" /\ pc' # "finally") =>
               /\ pc' = "exited"
               /\ exitStatus' = (IF exc THEN 1 ELSE 0)
               /\ warned' \/ ~pidfile'.exists
               /\ warned' => pidfile' = pidfile]_vars

\* the daemon has served, was shut down by a signal and removed its PID file
C7_Witness ==
    /\ mode = "daemon"
    /\ pc = "exited"
    /\ exitStatus = 0
    /\ dns_sock = "closed"
    /\ ~pidfile.exists
    /\ arrived > 0

\* the process id a PID file records, or ValueError
RecordedPid(file) == ParseInt(Strip(file.text))

\* C8: when the daemon finds a PID file that records a live process, whoever
\* owns that process, it exits non-zero without detaching, rewriting the file
\* or binding; when the file records a dead process or no process id, startup
\* goes on (and the file is removed unless the system refuses the unlink).
C8_LivePidFileStopsStartup ==
    [][(pc = "check_pid" /\ pidfile.exists /\ pc' \in {"daemonize", "exited"}) =>
         IF RecordedPid(pidfile) \in LivePids
         THEN /\ pc' = "exited"
              /\ exitStatus' = 1
              /\ pidfile' = pidfile
              /\ pid' = pid
              /\ dns_sock' = "none"
         ELSE /\ pc' = "daemonize"
              /\ pidfile' \in {NoFile, pidfile}]_vars

\* C9: an error in an iteration does not end the loop: every iteration ends at
\* the while condition, the loop is left only from the while condition with
\* the shutdown flag set, and without the flag the next poll starts.
C9_ErrorsDoNotEndLoop ==
    [][pc' \notin {pc, "killed"} =>
         /\ (pc \in IterPcs /\ pc' \notin IterPcs) => pc' = "loop"
         /\ (pc \in LoopPcs /\ pc' \notin LoopPcs) =>
               (pc = "loop" /\ shutdown_flag /\ pc' = "cleanup")
         /\ (pc = "loop" /\ ~shutdown_flag) => pc' = "recv"]_vars

\* after an iteration that ended in a refused send the loop polls again
C9_Witness ==
    /\ iter.outcome = "error"
    /\ iter.failed
    /\ pc = "recv"

\* the step is a fatal startup failure
DaemonizeFails == pc = "daemonize" /\ pc' = "exited"
CreatePidFileFails == pc = "create_pid" /\ pc' = "exited"
BindFails == pc = "bind" /\ pc' \in {"exited", "finally"}

\* the PID file holds the pid of this process
PidFileWritten == pidfile = FileWith(IntToText(pid))

\* C10 as claimed: every fatal startup failure, a failed bind included, comes
\* before the PID file is written, before the handlers are installed and
\* before a query is served.
C10_FailuresBeforeRunning ==
    [][(DaemonizeFails \/ CreatePidFileFails \/ BindFails) =>
         /\ ~PidFileWritten
         /\ handlers = {}
         /\ iter.n = 0]_vars

\* C10 as amended: a failed daemonization or PID file creation ends the
\* process with status 1 before the PID file is written, before the handlers
\* are installed and before a query is served; a failed bind ends it with
\* status 1 before a query is served, but after the handlers were installed
\* and, in daemon mode, after the PID file was written (the finally clause
\* then runs).
C10_FailuresAreFatal ==
    [][/\ (DaemonizeFails \/ CreatePidFileFails) =>
             /\ exitStatus' = 1
             /\ ~PidFileWritten
             /\ pidfile' # FileWith(IntToText(DaemonPid))
             /\ handlers = {}
             /\ iter.n = 0
       /\ BindFails =>
             /\ iter.n = 0
             /\ handlers = HandledSignals(mode)
             /\ mode = "foreground" => (pc' = "exited" /\ exitStatus' = 1)
             /\ mode = "daemon" => (pc' = "finally" /\ exc' /\ PidFileWritten)
       /\ (pc = "finally" /\ exc /\ pc' = "exited") => exitStatus' = 1]_vars

\* the daemon could not bind: its PID file is written, its handlers are
\* installed and the finally clause is about to run
C10_Witness ==
    /\ pc = "finally"
    /\ exc
    /\ PidFileWritten
    /\ handlers # {}
    /\ dns_sock = "none"

\* the signals each run mode installs signal_handler for, as the source lists them
DaemonHandled == {"SIGTERM", "SIGINT", "SIGHUP"}
ForegroundHandled == {"SIGTERM", "SIGINT"}

\* C11 as claimed: in both run modes the three handlers are installed before
\* the serving function starts, and a signal delivered during serving sets the
\* shutdown flag and leaves the process where it is (it is never ended by the
\* signal's default action).
C11_AllModesHandleThreeSignals ==
    [][(pc \in ServingPcs) =>
         /\ handlers = Signals
         /\ (\A s \in Signals : Signal(s) => (shutdown_flag' /\ pc' = pc))]_vars

\* C11 as amended: the daemon serves with handlers for the three signals, the
\* foreground process with handlers for termination and interrupt only; a
\* signal with a handler sets the shutdown flag and leaves the process where
\* it is; the hangup signal ends the serving foreground process by its default
\* action, without the loop's cleanup.
C11_HangupHandledByDaemonOnly ==
    [][(pc \in ServingPcs) =>
         /\ mode = "daemon" => handlers = DaemonHandled
         /\ mode = "foreground" => handlers = ForegroundHandled
         /\ (\A s \in Signals : Signal(s) =>
                IF mode = "daemon" \/ s # "SIGHUP"
                THEN shutdown_flag' /\ pc' = pc /\ exitStatus' = exitStatus
                ELSE pc' = "killed" /\ exitStatus' = 128 + 1)]_vars

\* a foreground process that had bound its socket was ended by the hangup signal
C11_Witness ==
    /\ mode = "foreground"
    /\ pc = "killed"
    /\ exitStatus = 129
    /\ dns_sock = "closed"

\* the module's step ends a run successfully (module.exit_json)
ExitsSuccessfully == upc # "exited" /\ upc' = "exited"

\* C12: in check mode neither module executes a command that changes the user
\* store, whatever the requested state and whether or not the user exists:
\* every command run is a read-only query and the store is left as it was.
C12_CheckModeRunsOnlyQueries ==
    [][params.check_mode =>
         /\ db' = db
         /\ \A i \in 1..Len(cmds') : cmds'[i] \in ReadOnlyCommands]_vars

\* a check-mode run reported that it would remove the user, who is still there
C12_Witness ==
    /\ upc = "exited"
    /\ params.check_mode
    /\ params.state = "absent"
    /\ result.changed
    /\ params.username \in DOMAIN db
    /\ Len(cmds) > 0

\* C13: when a run exits successfully the returned user_exists is whether the
\* user exists now; state=absent with a missing user removes nothing and
\* reports no change; state=absent with an existing user, outside check mode,
\* removes the user and reports changed with user_exists false; state=present
\* with a missing user, outside check mode, creates the user and reports
\* changed with user_exists true.
C13_UserExistsIsReported ==
    [][ExitsSuccessfully =>
         /\ result'.user_exists = (params.username \in DOMAIN db')
         /\ (params.state = "absent" /\ params.username \notin DOMAIN db)
               => (db' = db /\ ~result'.changed)
         /\ (params.state = "absent" /\ params.username \in DOMAIN db
               /\ ~params.check_mode)
               => /\ params.username \notin DOMAIN db'
                  /\ result'.changed
                  /\ ~result'.user_exists
         /\ (params.state = "present" /\ ~params.check_mode)
               => /\ params.username \in DOMAIN db'
                  /\ upc \in {"add_user", "enable_api"}
                        => (result'.changed /\ result'.user_exists)]_vars

\* the cache key of the query being handled: "<question name>:<type code>"
CurKeyText ==
    KeyText(NameToText(cur.data.qd[1].name), cur.data.qd[1].rdtype)

\* the step handles a multicast reply that parses: the success path
SuccessPath == pc = "reply" /\ cur.rdata.wellformed /\ pc' \in {"loop", "fallback"}

\* C14: on the success path, a reply with at least one answer record leaves the
\* cache mapping the query's key to the reply's first answer record, every
\* other entry as it was; a reply with no answer record leaves the whole cache
\* as it was; in both cases the reply, with the query's id, is sent to the
\* requester (the iteration goes to the fallback only if that send is refused).
C14_SuccessPathCachesFirstAnswer ==
    [][SuccessPath =>
         /\ IF Len(cur.rdata.an) > 0
            THEN /\ DOMAIN resolution_cache' = DOMAIN resolution_cache \cup {CurKeyText}
                 /\ resolution_cache'[CurKeyText] = cur.rdata.an[1]
                 /\ \A k \in DOMAIN resolution_cache \ {CurKeyText} :
                       resolution_cache'[k] = resolution_cache[k]
            ELSE resolution_cache' = resolution_cache
         /\ \/ /\ pc' = "loop"
               /\ iter'.out = Append(iter.out,
                      ToRequester([cur.rdata EXCEPT !.id = cur.data.id]))
            \/ /\ pc' = "fallback"
               /\ iter'.failed
               /\ iter'.out = iter.out]_vars

\* a reply without answer record was sent on while the key had an entry, and
\* the entry is still there
C14_Witness ==
    /\ iter.outcome = "live"
    /\ cur.rdata.an = <<>>
    /\ CurKey \in DOMAIN resolved
    /\ CurKeyText \in DOMAIN resolution_cache

\* C15: while the process lives, the cache changes only in a success-path step
\* whose reply has an answer record; every other step (a poll timeout, the
\* discard of an unparsable, question-less or non-local datagram, the fallback
\* with its lookup) leaves it as it was, and no step removes a key.
C15_OnlySuccessPathChangesCache ==
    [][pc' \notin {"exited", "killed"} =>
         /\ DOMAIN resolution_cache \subseteq DOMAIN resolution_cache'
         /\ resolution_cache' # resolution_cache
               => (SuccessPath /\ Len(cur.rdata.an) > 0)]_vars

\* a datagram was discarded, or a query went through the fallback, while the
\* cache held an entry
C15_Witness ==
    /\ iter.outcome \in {"unparsable", "noquestion", "nonlocal", "dropped", "cached"}
    /\ resolution_cache # EmptyDict
    /\ DOMAIN resolution_cache = {KeyText(NameToText(k[1]), k[2]) : k \in DOMAIN resolved}

\* "A.local.": the name "a.local." in another case
NameCapLocal == <<<<"A">>, LabelLocal>>

\* queries that differ in the case of the name, in the name, in the type
KeyQueries ==
    {from_wire(Query(1, n, t)) :
        n \in {NameALocal, NameCapLocal, NameBLocal}, t \in {TypeA, TypeAAAA}}

\* C16: the key the success path writes for a query and the key the fallback
\* looks up for a query are equal exactly when the two queries have the same
\* first question name (letter for letter) and the same type code; so what the
\* fallback finds for a query is a record that was resolved for that very name
\* and type (the latest one), never one stored for another name or type.
C16_SameKeyWrittenAndRead ==
    /\ \A q1 \in KeyQueries, q2 \in KeyQueries :
          (WriteKey(q1) = ReadKey(q2))
             <=> /\ q1.question[1].name = q2.question[1].name
                 /\ q1.question[1].rdtype = q2.question[1].rdtype
    /\ \A q \in ClientQueries :
          LET K == <<q.qd[1].name, q.qd[1].rdtype>>
              found == create_cached_response(from_wire(q), resolution_cache)
          IN  found # None
              => /\ K \in DOMAIN resolved
                 /\ found.answer = <<resolved[K][Len(resolved[K])].answer>>

\* the cache holds different records for the same name under two types
C16_Witness ==
    /\ <<NameALocal, TypeA>> \in DOMAIN resolved
    /\ <<NameALocal, TypeAAAA>> \in DOMAIN resolved
    /\ resolution_cache[KeyText(NameToText(NameALocal), TypeA)]
          # resolution_cache[KeyText(NameToText(NameALocal), TypeAAAA)]

\* C17: the reply the success path forwards to the requester, and caches under
\* the key of the query being handled, was sent in answer to that very query:
\* a reply to the query of an earlier iteration, arriving after that
\* iteration's receive timeout, is never taken for the reply to a later query.
C17_RepliesArePaired ==
    [][(SuccessPath /\ (iter'.out # iter.out \/ Len(cur.rdata.an) > 0))
          => cur.re = iter.n]_vars

\* C18: one query at a time, in arrival order.  While the listening socket is
\* open, a datagram leaves its buffer only when the loop polls, after the iteration before it is
\* over, and it is the oldest one waiting (the n-th datagram received is the
\* n-th that arrived); while an iteration handles a query the query in hand
\* does not change; every datagram an iteration sends to a requester goes to
\* the sender of the query in hand.
C18_OneQueryAtATime ==
    [][dns_sock' = "bound" =>
         /\ (inbox' # inbox /\ Len(inbox') <= Len(inbox))
               => /\ pc = "recv" /\ pc' = "parse"
                  /\ iter.n = 0 \/ IterationOver
                  /\ inbox' = Tail(inbox)
                  /\ cur'.data = Head(inbox).data
                  /\ cur'.addr = Head(inbox).addr
                  /\ cur'.seq = iter.n + 1
         /\ (pc \in IterPcs)
               => /\ cur'.data = cur.data
                  /\ cur'.addr = cur.addr
                  /\ cur'.seq = cur.seq
                  /\ iter'.n = iter.n
         /\ (\A i \in 1..Len(iter'.out) : iter'.out[i].to = cur'.addr)]_vars

\* the second query arrived while the loop waited for the reply to the first
\* and was received after the first iteration was over
C18_Witness ==
    /\ pc = "parse"
    /\ cur.mid
    /\ cur.seq = 2
    /\ iter.n = 2
    /\ iter.asked = {1}

\* the ways an iteration ends
Outcomes == {"unparsable", "noquestion", "nonlocal", "live", "cached", "dropped", "error"}

\* C19: the shutdown flag is acted on only between iterations.  With the flag
\* set, an iteration still ends at the while condition with its outcome (for a
\* forwarded query: answered live, answered from cache, dropped); the cleanup
\* is never reached with a query in hand that has no outcome; and an
\* iteration under way when the flag is set does reach its outcome, unless a
\* signal without handler ends the process.
C19_ShutdownBetweenIterations ==
    /\ [][(shutdown_flag /\ pc \in IterPcs /\ pc' \notin IterPcs /\ pc' # "killed")
            => /\ pc' = "loop"
               /\ iter'.outcome \in Outcomes
               /\ iter'.outcome \in {"live", "cached", "dropped"}
                     => iter'.mcast = <<cur.data>>
               /\ iter'.outcome \in {"live", "cached"} => Len(iter'.out) = 1]_vars
    /\ [](pc = "cleanup" => (iter.n = 0 \/ IterationOver))
    /\ ((shutdown_flag /\ pc \in IterPcs)
           ~> (pc = "killed" \/ (pc = "loop" /\ IterationOver)))

\* the flag was set while a query was being handled; the reply was still sent
\* to the requester and then the loop was left
C19_Witness ==
    /\ pc = "cleanup"
    /\ iter.hit
    /\ iter.outcome = "live"
    /\ Len(iter.out) = 1


\* The four lifecycle states of the process, by position in main() and
\* run_proxy(): Starting (argument parsing, PID-file check, daemonizing),
\* Running (PID file written, handlers installed, sockets and relay loop),
\* ShuttingDown (the loop has observed the shutdown flag and left), Stopped
\* (sockets closed, PID file removal, process exit).
LifecycleRank(p) ==
    CASE p \in {"start", "check_pid", "daemonize"} -> 1
      [] p \in {"create_pid", "signals", "bind"} \cup LoopPcs -> 2
      [] p = "cleanup" -> 3
      [] p \in {"finally", "exited", "killed"} -> 4

\* C20: the lifecycle rank never decreases (Starting, Running, ShuttingDown,
\* Stopped in that order, no return to an earlier state); the step that leaves
\* ShuttingDown, which is only entered on an observed shutdown flag, leaves
\* both sockets closed; and in Stopped no socket is open, no query is taken
\* from the DNS socket and no datagram is added to what was sent.
C20_LifecycleIsLinear ==
    /\ [][LifecycleRank(pc') >= LifecycleRank(pc)]_vars
    /\ [][(LifecycleRank(pc) < 3 /\ LifecycleRank(pc') = 3) => shutdown_flag]_vars
    /\ [][(LifecycleRank(pc) = 3 /\ LifecycleRank(pc') = 4)
            => (dns_sock' = "closed" /\ mdns_sock' = "closed")]_vars
    /\ [](LifecycleRank(pc) = 4 => (dns_sock # "bound" /\ mdns_sock # "open"))
    /\ [][LifecycleRank(pc) = 4
            => /\ iter'.n <= iter.n
               /\ Len(iter'.out) <= Len(iter.out)
               /\ Len(iter'.mcast) <= Len(iter.mcast)
               /\ Len(inbox') <= Len(inbox)
               /\ Len(mbox') <= Len(mbox)]_vars

\* A daemon that served a query, was told to stop and has ended with both
\* sockets closed.
C20_Witness ==
    /\ pc = "exited"
    /\ mode = "daemon"
    /\ exitStatus = 0
    /\ arrived > 0
    /\ dns_sock = "closed"
    /\ mdns_sock = "closed"


\* the received datagram cannot be used as a query: it does not parse as a DNS
\* message, or it parses to a message without a question
Unusable(data) == ~data.wellformed \/ Len(data.qd) = 0

\* C23: a received datagram that does not parse, or that has no question, is
\* discarded: the step that handles it goes back to the while condition, leaves
\* the cache and the waiting datagrams as they are and sends nothing; when its
\* iteration is over nothing has gone to the multicast group or the requester.
C23_UnusableDatagramDiscarded ==
    /\ [][(pc = "parse" /\ Unusable(cur.data) /\ pc' \notin {"parse", "killed"})
            => /\ pc' = "loop"
               /\ resolution_cache' = resolution_cache
               /\ inbox' = inbox
               /\ iter'.outcome \in {"unparsable", "noquestion"}
               /\ iter'.mcast = <<>>
               /\ iter'.out = <<>>]_vars
    /\ [](iter.outcome \in {"unparsable", "noquestion"}
            => (Unusable(cur.data) /\ iter.mcast = <<>> /\ iter.out = <<>>))
    /\ [][(iter.outcome \in {"unparsable", "noquestion"} /\ pc = "loop"
           /\ ~shutdown_flag /\ pc' \notin {"loop", "killed"})
            => pc' = "recv"]_vars

\* the second datagram did not parse; it was discarded while the cache held the
\* record of the first, and the loop polls again
C23_Witness ==
    /\ iter.outcome = "unparsable"
    /\ iter.n = 2
    /\ DOMAIN resolution_cache # {}
    /\ pc = "recv"


\* how the live path of a forwarded query can fail to give a usable reply:
\* mdns_sock.recvfrom times out, mdns_sock.recvfrom raises another error, the
\* reply does not parse
LiveFailures == {"timeout", "error", "badreply"}

\* C24: a forwarded query whose live path fails, in any of the three ways, is
\* handled as a timeout is: the failing step sends nothing, leaves the cache
\* alone and goes to the cache lookup; if the query's key has been resolved the
\* requester gets the response built from the latest record cached for it
\* (unless the send is refused), and if not, or if no response can be built for
\* the datagram (it is itself a response), the requester gets nothing.
C24_LiveFailuresFallBackAlike ==
    /\ [][(iter'.via \in LiveFailures /\ iter'.via # iter.via)
            => /\ pc \in {"wait", "reply"}
               /\ pc' = "fallback"
               /\ iter.mcast = <<cur.data>>
               /\ iter'.out = <<>>
               /\ resolution_cache' = resolution_cache]_vars
    /\ [](\A via \in LiveFailures :
            (IterationOver /\ iter.via = via) =>
               IF CurKey \in DOMAIN resolved /\ "QR" \notin cur.data.flags
               THEN \/ iter.failed /\ iter.out = <<>>
                    \/ /\ ~iter.failed
                       /\ iter.out = <<ToRequester(CachedAnswer(cur.data,
                                resolved[CurKey][Len(resolved[CurKey])].answer))>>
               ELSE iter.out = <<>>)

\* a query whose reply did not parse was answered from the cache
C24_Witness ==
    /\ iter.via = "badreply"
    /\ iter.outcome = "cached"
    /\ Len(iter.out) = 1


\* the received datagram is accepted: it parses, has a question, and the name
\* of its first question ends with ".local."
Accepted(data) ==
    /\ data.wellformed
    /\ Len(data.qd) > 0
    /\ IsLocal(NameToText(data.qd[1].name))

\* C25: an accepted query is sent to the multicast group once, as the datagram
\* that was received, before the loop waits for a reply: the step after the
\* filter either sends cur.data unchanged and starts the wait, or its send is
\* refused and the iteration ends with nothing sent; from the wait on, and when
\* the iteration is over, what went to the group is exactly cur.data; nothing
\* else ever goes to the group.
C25_ForwardedOnceUnmodified ==
    /\ [][(pc = "forward" /\ pc' \notin {"forward", "killed"})
            => /\ Accepted(cur.data)
               /\ iter.mcast = <<>>
               /\ \/ pc' = "wait" /\ iter'.mcast = <<cur.data>>
                  \/ /\ pc' = "loop"
                     /\ iter'.failed
                     /\ iter'.mcast = <<>>
                     /\ iter'.out = <<>>]_vars
    /\ [](pc \in {"wait", "reply", "fallback"} => iter.mcast = <<cur.data>>)
    /\ []((IterationOver /\ Accepted(cur.data))
            => \/ iter.mcast = <<cur.data>>
               \/ iter.mcast = <<>> /\ iter.failed /\ iter.out = <<>>)
    /\ [](iter.mcast # <<>> => (Accepted(cur.data) /\ iter.mcast = <<cur.data>>))
    /\ [][(mbox' # mbox /\ Len(mbox') > Len(mbox)) => iter.mcast = <<cur.data>>]_vars

\* the loop waits for the reply to a query of requester B, which went to the
\* group with B's transaction id
C25_Witness ==
    /\ pc = "wait"
    /\ cur.data = Query(2, NameALocal, TypeA)
    /\ iter.mcast = <<Query(2, NameALocal, TypeA)>>


\* the positions of main() that read or write the PID file: the "already
\* running" check, create_pid_file and the finally clause with remove_pid_file
\* (daemonize lies between the first two)
PidFilePcs == {"check_pid", "daemonize", "create_pid", "finally"}

\* C26: in foreground mode no step changes the file at the PID file path and
\* the program is never at a position that reads or writes it; its startup goes
\* from the argument parsing to the handlers and to run_proxy whatever the file
\* is, and the file it ends with is the file it started with.
C26_ForegroundLeavesPidFile ==
    /\ [][mode = "foreground" => pidfile' = pidfile]_vars
    /\ [](mode = "foreground" => pc \notin PidFilePcs)
    /\ [][(mode = "foreground" /\ pc \in {"start", "signals"}
           /\ pc' \notin {pc, "killed"})
            => pc' \in {"signals", "bind"}]_vars
    /\ [](mode = "foreground" => (pid = LauncherPid /\ ~warned))

\* a foreground run has served a query and ended normally beside the PID file
\* of a live process
C26_Witness ==
    /\ mode = "foreground"
    /\ pc = "exited"
    /\ exitStatus = 0
    /\ arrived > 0
    /\ pidfile = FileWith(<<"1", "\n">>)


\* C22: for every received query at most one datagram goes to the requester:
\* the iteration never sends both the live reply and a cached response.
C22_AtMostOneDatagramPerQuery == Len(iter.out) <= 1


\* C27: state=present is idempotent in both modules: when the module has run
\* twice in a row outside check mode with the same parameters, a password
\* among them, every CLI command of both runs could be run and the first run
\* did not fail, the second run exits with changed=false and the message that
\* the user already exists with correct configuration.
C27_PresentIsIdempotent ==
    (/\ Len(runs) = 2
     /\ params.state = "present"
     /\ ~params.check_mode
     /\ params.password # ""
     /\ cli_ok
     /\ ~runs[1].failed)
    => /\ ~runs[2].failed
       /\ ~runs[2].result.changed
       /\ runs[2].result.msg = "already correct"


\* C21: the PID file guards the serving instance whatever the interleaving of
\* two instances started with the same path: while an instance is in its
\* serving loop the file exists and holds the pid of that instance, and no step
\* taken while it serves (the steps of an instance that fails to start among
\* them) removes or overwrites the file.
C21_PidFileGuardsServingInstance ==
    /\ [](\A i \in Instances :
            Serving(i) => pid_file = FileWith(IntToText(procs[i].pid)))
    /\ [][(\E i \in Instances : Serving(i) /\ procs'[i].pc = "serving")
            => pid_file' = pid_file]_vars

=============================================================================
